---------------------------- MODULE Spec2Model ----------------------------
(***************************************************************************)
(* hetzner-private-dns-sync: the reconciliation run of src/main.rs as a    *)
(* state machine.  One run is main(): open state.json, rename recovery,    *)
(* diff against the network's member list, add loop, remove loop, and the  *)
(* save of StateWrapper's Drop.  The state file and the DNS zone outlive a *)
(* run; a later run starts from what the earlier one left.                 *)
(*                                                                         *)
(* Strings are sequences of one-character strings, so that the length of   *)
(* state.json in bytes, the FQDN concatenation and the IPv4 parse are      *)
(* computed and not assumed.                                               *)
(*                                                                         *)
(* Environment: the first run of a behaviour gets any command line and any *)
(* member list; the runs after it are re-invocations with the same command *)
(* line, against a network that is unchanged or has gained or lost one     *)
(* server since the run before.                                            *)
(***************************************************************************)
EXTENDS Integers, Sequences, FiniteSets, TLC

(***************************************************************************)
(* Bounds of the model.                                                    *)
(***************************************************************************)
\* Server ids are 1..MaxId.
MaxId == 3
\* Runs of the program in one behaviour.
MaxRuns == 2

(***************************************************************************)
(* Program constants.                                                      *)
(***************************************************************************)
\* The ttl literal of create and update, main.rs:173 and main.rs:188.
Ttl == 600

Null == "null"

\* Option<T>: None is the empty sequence, Some(x) the sequence holding x.
None == <<>>

Some(x) == <<x>>

Quote == "\""

Backslash == "\\"

DigitChars == <<"0", "1", "2", "3", "4", "5", "6", "7", "8", "9">>

IsDigit(c) == \E i \in 1..10 : DigitChars[i] = c

DigitVal(c) == (CHOOSE i \in 1..10 : DigitChars[i] = c) - 1

(***************************************************************************)
(* serde_json::to_writer(&self.file, &self.data): the compact JSON text of *)
(* State, fields in declaration order.                                     *)
(***************************************************************************)
RECURSIVE SerInt(_)
SerInt(n) == IF n < 10 THEN <<DigitChars[n + 1]>>
             ELSE SerInt(n \div 10) \o <<DigitChars[(n % 10) + 1]>>

RECURSIVE Escape(_)
Escape(s) == IF s = <<>> THEN <<>>
             ELSE (IF Head(s) \in {Quote, Backslash}
                   THEN <<Backslash, Head(s)>> ELSE <<Head(s)>>)
                  \o Escape(Tail(s))

SerString(s) == <<Quote>> \o Escape(s) \o <<Quote>>

LitName == <<"{", Quote, "p", "r", "i", "v", "a", "t", "e", "_", "n", "e", "t",
             "w", "o", "r", "k", "_", "n", "a", "m", "e", Quote, ":">>

LitServers == <<",", Quote, "s", "e", "r", "v", "e", "r", "s", "_", "s", "y",
                "n", "c", "e", "d", Quote, ":", "[">>

LitId == <<"{", Quote, "i", "d", Quote, ":">>

LitIp == <<",", Quote, "i", "p", "_", "a", "d", "d", "r", "e", "s", "s",
           Quote, ":">>

LitHostname == <<",", Quote, "h", "o", "s", "t", "n", "a", "m", "e", Quote, ":">>

SerServer(s) == LitId \o SerInt(s.id) \o LitIp \o SerString(s.ip_address)
                \o LitHostname \o SerString(s.hostname) \o <<"}">>

RECURSIVE SerServers(_)
SerServers(l) == IF l = <<>> THEN <<>>
                 ELSE IF Len(l) = 1 THEN SerServer(l[1])
                 ELSE SerServer(l[1]) \o <<",">> \o SerServers(Tail(l))

to_json(data) == LitName \o SerString(data.private_network_name) \o LitServers
                 \o SerServers(data.servers_synced) \o <<"]", "}">>

(***************************************************************************)
(* serde_json::from_reader(&state_file): a recursive-descent reader of the *)
(* text above.  Each reader takes the bytes and a position and returns     *)
(* [ok, val, pos].  The whole input must be consumed: bytes after the      *)
(* closing brace are serde_json's "trailing characters" error.             *)
(***************************************************************************)
Bad == [ok |-> FALSE, val |-> Null, pos |-> 0]

ReadLit(b, p, lit) ==
    IF p + Len(lit) - 1 <= Len(b) /\ SubSeq(b, p, p + Len(lit) - 1) = lit
    THEN [ok |-> TRUE, val |-> Null, pos |-> p + Len(lit)]
    ELSE Bad

RECURSIVE ReadChars(_, _, _)
ReadChars(b, p, acc) ==
    IF p > Len(b) THEN Bad
    ELSE IF b[p] = Quote THEN [ok |-> TRUE, val |-> acc, pos |-> p + 1]
    ELSE IF b[p] = Backslash
         THEN IF p + 1 > Len(b) THEN Bad
              ELSE ReadChars(b, p + 2, Append(acc, b[p + 1]))
    ELSE ReadChars(b, p + 1, Append(acc, b[p]))

ReadString(b, p) ==
    IF p <= Len(b) /\ b[p] = Quote THEN ReadChars(b, p + 1, <<>>) ELSE Bad

RECURSIVE ReadDigits(_, _, _)
ReadDigits(b, p, acc) ==
    IF p <= Len(b) /\ IsDigit(b[p])
    THEN ReadDigits(b, p + 1, acc * 10 + DigitVal(b[p]))
    ELSE [ok |-> TRUE, val |-> acc, pos |-> p]

ReadInt(b, p) ==
    IF p <= Len(b) /\ IsDigit(b[p]) THEN ReadDigits(b, p, 0) ELSE Bad

ReadServer(b, p) ==
    LET l1 == ReadLit(b, p, LitId) IN
    IF ~l1.ok THEN Bad ELSE
    LET id == ReadInt(b, l1.pos) IN
    IF ~id.ok THEN Bad ELSE
    LET l2 == ReadLit(b, id.pos, LitIp) IN
    IF ~l2.ok THEN Bad ELSE
    LET ip == ReadString(b, l2.pos) IN
    IF ~ip.ok THEN Bad ELSE
    LET l3 == ReadLit(b, ip.pos, LitHostname) IN
    IF ~l3.ok THEN Bad ELSE
    LET hn == ReadString(b, l3.pos) IN
    IF ~hn.ok THEN Bad ELSE
    LET l4 == ReadLit(b, hn.pos, <<"}">>) IN
    IF ~l4.ok THEN Bad ELSE
    [ok |-> TRUE,
     val |-> [id |-> id.val, ip_address |-> ip.val, hostname |-> hn.val],
     pos |-> l4.pos]

RECURSIVE ReadServers(_, _, _)
ReadServers(b, p, acc) ==
    IF p > Len(b) THEN Bad
    ELSE IF b[p] = "]" /\ acc = <<>> THEN [ok |-> TRUE, val |-> acc, pos |-> p + 1]
    ELSE LET s == ReadServer(b, p) IN
         IF ~s.ok \/ s.pos > Len(b) THEN Bad
         ELSE IF b[s.pos] = "]"
              THEN [ok |-> TRUE, val |-> Append(acc, s.val), pos |-> s.pos + 1]
         ELSE IF b[s.pos] = ","
              THEN ReadServers(b, s.pos + 1, Append(acc, s.val))
         ELSE Bad

from_json(b) ==
    LET l1 == ReadLit(b, 1, LitName) IN
    IF ~l1.ok THEN Bad ELSE
    LET nm == ReadString(b, l1.pos) IN
    IF ~nm.ok THEN Bad ELSE
    LET l2 == ReadLit(b, nm.pos, LitServers) IN
    IF ~l2.ok THEN Bad ELSE
    LET sv == ReadServers(b, l2.pos, <<>>) IN
    IF ~sv.ok THEN Bad ELSE
    LET l3 == ReadLit(b, sv.pos, <<"}">>) IN
    IF ~l3.ok \/ l3.pos # Len(b) + 1 THEN Bad ELSE
    [ok |-> TRUE,
     val |-> [private_network_name |-> nm.val, servers_synced |-> sv.val],
     pos |-> l3.pos]


(***************************************************************************)
(* server.ip_address.parse() into the Ipv4Addr of DnsRecord::A: four       *)
(* decimal groups separated by dots, each of one to three digits, no       *)
(* leading zero, at most 255.                                              *)
(***************************************************************************)
RECURSIVE SplitDots(_, _, _)
SplitDots(s, cur, acc) ==
    IF s = <<>> THEN Append(acc, cur)
    ELSE IF Head(s) = "." THEN SplitDots(Tail(s), <<>>, Append(acc, cur))
    ELSE SplitDots(Tail(s), Append(cur, Head(s)), acc)

RECURSIVE DecimalValue(_, _)
DecimalValue(g, acc) ==
    IF g = <<>> THEN acc ELSE DecimalValue(Tail(g), acc * 10 + DigitVal(Head(g)))

OctetOk(g) ==
    /\ Len(g) \in 1..3
    /\ \A i \in 1..Len(g) : IsDigit(g[i])
    /\ (Len(g) > 1 => g[1] # "0")
    /\ DecimalValue(g, 0) <= 255

parse_ip(s) ==
    LET g == SplitDots(s, <<>>, <<>>) IN
    IF Len(g) = 4 /\ \A i \in 1..4 : OctetOk(g[i])
    THEN [ok |-> TRUE, addr |-> [i \in 1..4 |-> DecimalValue(g[i], 0)]]
    ELSE [ok |-> FALSE, addr |-> <<>>]

(***************************************************************************)
(* The world outside the program: the command lines it is run with, the    *)
(* cloud project behind the Membership Provider, and the DNS zone.         *)
(***************************************************************************)
\* --zone-name.
zone_name == <<"z">>

\* The values --private-network-name takes: a longer and a shorter name.
NetNames == {<<"n", "e", "t">>, <<"n">>}

ServerIds == 1..MaxId

\* Server names of the project.  Server names are unique within a project at
\* any one time; an id of the same parity is a later server created under the
\* name of an earlier, deleted one.
HostnameOf(id) == IF id % 2 = 1 THEN <<"a">> ELSE <<"b", "b">>

IpOf(id) == <<"1", "0", ".", "0", ".", "0", ".">> \o SerInt(id)

\* An address string that is no IPv4 literal.
NonV4 == <<"f", "d", ":", ":", "1">>

ServerOf(id) == [id |-> id, ip_address |-> IpOf(id), hostname |-> HostnameOf(id)]

Last(l) == l[Len(l)]

Ids(l) == {l[i].id : i \in 1..Len(l)}

Range(l) == {l[i] : i \in 1..Len(l)}

NoDup(l) == \A i, j \in 1..Len(l) : l[i].id = l[j].id => i = j

\* Sets of servers that can exist together: distinct names.
Coexist(S) == \A a, b \in S : HostnameOf(a) = HostnameOf(b) => a = b

RECURSIVE Ascending(_)
Ascending(S) == IF S = {} THEN <<>>
                ELSE LET m == CHOOSE x \in S : \A y \in S : x <= y
                     IN <<m>> \o Ascending(S \ {m})

\* Network.servers as the provider returns it: the members in id order, or
\* the same list with its first id listed a second time.
MemberLists ==
    LET sets == {S \in SUBSET ServerIds : Coexist(S)}
    IN {Ascending(S) : S \in sets}
       \cup {Append(Ascending(S), Ascending(S)[1]) : S \in {T \in sets : Cardinality(T) = 2}}

\* Network.servers at a run after the first: the network as the run before
\* saw it, or with one server having joined or left since.
Churn(a, b) == (Range(a) \ Range(b)) \cup (Range(b) \ Range(a))

LaterMemberLists(before) ==
    {m \in MemberLists : \/ m = before
                         \/ /\ Len(m) = Cardinality(Range(m))
                            /\ Cardinality(Churn(m, before)) = 1}

\* All orders in which a HashSet may hand out its elements.
Orders(S) == {s \in [1..Cardinality(S) -> S] : \A i, j \in 1..Cardinality(S) : s[i] = s[j] => i = j}

\* The ids of the member list that are not synced, repeats kept: the diff
\* without the HashSet.
servers_to_add_list(members, synced) ==
    {SelectSeq(members, LAMBDA id : id \notin Ids(synced))}

\* Every member, synced or not: the diff without the state.
servers_to_add_all(members, synced) == Orders(Range(members))

\* main.rs:355-358 and 359-362: the set differences, in any iteration order.
servers_to_add_orders(members, synced) == Orders(Range(members) \ Ids(synced))

\* Every synced server, member or not: the diff without the member list.
servers_to_remove_all(members, synced) == Orders(Ids(synced))

servers_to_remove_orders(members, synced) == Orders(Ids(synced) \ Range(members))

ZeroState == [private_network_name |-> <<>>, servers_synced |-> <<>>]

fqdn(server) == server.hostname \o <<".">> \o zone_name

\* The A record the tool keeps for a synced server.
RecordOf(server) == [name |-> fqdn(server), content |-> parse_ip(server.ip_address).addr]

\* Server 2 as it was when it was synced, before it was renamed and attached
\* to the network anew: the record state.json may still hold for it.
StaleServer == [id |-> 2, ip_address |-> <<"1", "0", ".", "0", ".", "0", ".", "9">>,
                hostname |-> <<"c">>]

\* States an earlier, successful history of runs leaves behind: nothing at
\* all, or a network name with servers synced in id order, as the provider
\* reports them now or, servers 1 and 2, with server 2 as it was.  The newest
\* id is not yet synced.
InitStates ==
    {ZeroState} \cup
    {[private_network_name |-> <<"n", "e", "t">>,
      servers_synced |-> [i \in 1..Len(Ascending(S)) |-> ServerOf(Ascending(S)[i])]] :
        S \in {T \in SUBSET (1..(MaxId - 1)) : Coexist(T)}} \cup
    {[private_network_name |-> <<"n", "e", "t">>,
      servers_synced |-> <<ServerOf(1), StaleServer>>]}

VARIABLES
    file,               \* bytes of state.json (StateWrapper.file)
    zone,               \* A records of the zone
    network_servers,    \* Network.servers of the requested network
    runs,               \* runs started so far
    pc,                 \* where main() is
    result,             \* how the last run ended, "running" during a run
    args,               \* Args of the run
    current_state,      \* StateWrapper.data
    network_info,       \* HCloudWrapper.network_info
    to_hydrate,         \* server_ids still to hydrate
    hydrated_servers,   \* hydrate_server_list's result so far
    servers_to_add,     \* hydrated servers still to add
    servers_to_remove,  \* ids still to remove
    rename_queue,       \* servers_synced.clone() still to clean up
    calls,              \* history: Zone Mutator calls of the run
    provider_calls,     \* history: Membership Provider calls of the run
    start_file,         \* history: state.json as the run found it
    ops_done,           \* history: operations applied and persisted by the run
    prev,               \* history: the run before this one
    last_saved,         \* history: the state of the run's last successful save
    fault,              \* history: the first failure the environment gave the run
    adds_started,       \* history: add_server invocations of the run
    start_consistent    \* history: the zone matched state.json as the run began

vars == <<file, zone, network_servers, runs, pc, result, args, current_state,
          network_info, to_hydrate, hydrated_servers, servers_to_add,
          servers_to_remove, rename_queue, calls, provider_calls, start_file,
          ops_done, prev, last_saved, fault, adds_started, start_consistent>>

NoArgs == [private_network_name |-> <<>>, allow_private_network_change |-> FALSE]

NoPrev == [result |-> "none", same |-> FALSE, ops |-> {}]

Init ==
    /\ \E s \in InitStates :
         /\ file = IF s = ZeroState THEN <<>> ELSE to_json(s)
         /\ zone = {RecordOf(s.servers_synced[i]) : i \in 1..Len(s.servers_synced)}
    /\ network_servers = <<>>
    /\ runs = 0
    /\ pc = "exited"
    /\ result = "none"
    /\ args = NoArgs
    /\ current_state = ZeroState
    /\ network_info = None
    /\ to_hydrate = <<>>
    /\ hydrated_servers = <<>>
    /\ servers_to_add = <<>>
    /\ servers_to_remove = <<>>
    /\ rename_queue = <<>>
    /\ calls = <<>>
    /\ provider_calls = 0
    /\ start_file = <<>>
    /\ ops_done = {}
    /\ prev = NoPrev
    /\ last_saved = None
    /\ fault = "none"
    /\ adds_started = 0
    /\ start_consistent = FALSE

(***************************************************************************)
(* StateWrapper::save: seek to the start of the file and write the JSON    *)
(* text over what is there.  The file is not truncated (no set_len): bytes *)
(* of the old content past the end of the new text stay.                   *)
(***************************************************************************)
Overwrite(old, bytes) == bytes \o SubSeq(old, Len(bytes) + 1, Len(old))

save(old, data) == Overwrite(old, to_json(data))

\* servers_synced.retain(|s| s.id != id)
\* The predicate the wrong way round: what is kept is the server to remove.
retain_inverted(l, id) == SelectSeq(l, LAMBDA s : s.id = id)

retain(l, id) == SelectSeq(l, LAMBDA s : s.id # id)

\* servers_synced.iter().find(|s| s.id == id): the first match, if any.
find(l, id) ==
    IF \E i \in 1..Len(l) : l[i].id = id
    THEN Some(l[CHOOSE i \in 1..Len(l) : l[i].id = id /\ \A j \in 1..(i - 1) : l[j].id # id])
    ELSE None

(***************************************************************************)
(* The Zone Mutator (dns_update over RFC 2136).  create adds the record    *)
(* when the name holds none and is rejected (Error::Response) when it      *)
(* holds one; the server may also reject a request for reasons of its own, *)
(* and a request may fail in transport.  update replaces the records of    *)
(* the name; delete removes them.                                          *)
(***************************************************************************)
Named(z, name) == {r \in z : r.name = name}

create_outcomes(z, name) ==
    (IF Named(z, name) = {} THEN {"ok"} ELSE {}) \cup {"response", "other"}

zone_create(z, name, addr) == z \cup {[name |-> name, content |-> addr]}

zone_update(z, name, addr) == (z \ Named(z, name)) \cup {[name |-> name, content |-> addr]}

zone_delete(z, name) == z \ Named(z, name)

\* Entries of the call history: the arguments of the call, the id of the
\* server it is made for, and how it ended ("ok", "response" for a rejection,
\* "other" for any other error).
CreateCall(id, name, addr, res) ==
    [op |-> "create", id |-> id, name |-> name, content |-> addr, ttl |-> Ttl, res |-> res]

\* A second create in the place of the update.
CreateAgain(id, name, addr, res) == CreateCall(id, name, addr, res)

\* main.rs:182-190: update_record(id, name, A, content, ttl).
UpdateCall(id, name, addr, res) ==
    [op |-> "update", id |-> id, name |-> name, content |-> addr, ttl |-> Ttl, res |-> res]

DeleteCall(id, name, res) ==
    [op |-> "delete", id |-> id, name |-> name, content |-> <<>>, ttl |-> 0, res |-> res]

Outcome(ok) == IF ok THEN "ok" ELSE "other"

(***************************************************************************)
(* The Membership Provider's answers to get_server: an API error, no       *)
(* server, or a server with its private network attachments.  The run's    *)
(* network has id "N1".                                                    *)
(***************************************************************************)
PrivateNets(id) ==
    { <<>>,
      <<[network |-> "N2", ip |-> Some(IpOf(id))]>>,
      <<[network |-> "N1", ip |-> None]>>,
      <<[network |-> "N1", ip |-> Some(NonV4)]>>,
      <<[network |-> "N2", ip |-> Some(NonV4)], [network |-> "N1", ip |-> Some(IpOf(id))]>> }

GetServerResponses(id) ==
    {[ok |-> FALSE, server |-> None], [ok |-> TRUE, server |-> None]}
    \cup {[ok |-> TRUE, server |-> Some([name |-> HostnameOf(id), private_net |-> pn])] :
            pn \in PrivateNets(id)}

\* One turn of hydrate_server_list's loop: Some(Server), or None for an error.
hydrate_one(id, resp, network_id) ==
    IF ~resp.ok \/ resp.server = None THEN None
    ELSE LET server_info == resp.server[1]
             pn == server_info.private_net
             hit == {i \in 1..Len(pn) : pn[i].network = network_id}
         IN IF hit = {} THEN None
            ELSE LET n == pn[CHOOSE i \in hit : \A j \in hit : i <= j]
                 IN IF n.ip = None THEN None
                    ELSE Some([id |-> id, ip_address |-> n.ip[1],
                               hostname |-> server_info.name])

(***************************************************************************)
(* The run.                                                                *)
(***************************************************************************)
Running == pc # "exited"

\* What only StartRun sets.
env == <<network_servers, runs, args, prev>>

\* What StartRun sets and the end of the process clears.
started == <<start_file, start_consistent>>

\* The lists of the diff phase.
lists == <<to_hydrate, hydrated_servers, servers_to_add, servers_to_remove>>

Records(l) == {RecordOf(l[i]) : i \in 1..Len(l)}

\* The process is gone: what it held in memory is gone with it.
ProcessEnds ==
    /\ pc' = "exited"
    /\ current_state' = ZeroState
    /\ network_info' = None
    /\ to_hydrate' = <<>>
    /\ hydrated_servers' = <<>>
    /\ servers_to_add' = <<>>
    /\ servers_to_remove' = <<>>
    /\ rename_queue' = <<>>
    /\ calls' = <<>>
    /\ provider_calls' = 0
    /\ adds_started' = 0
    /\ start_file' = <<>>
    /\ start_consistent' = FALSE

\* main returns Err (the ? operator): the StateWrapper is dropped next.
ReturnErr(kind) == pc' = "drop" /\ result' = "err" /\ fault' = kind

\* The run goes on.
Goes(to) == pc' = to /\ UNCHANGED <<result, fault>>

\* The process starts: run number n, with its command line and the member list
\* the provider will give it.
Begin(name, allow, members, n) ==
    /\ pc = "exited"
    /\ args' = [private_network_name |-> name, allow_private_network_change |-> allow]
    /\ network_servers' = members
    /\ prev' = [result |-> result,
                same |-> runs > 0 /\ members = network_servers,
                ops |-> ops_done]
    /\ runs' = n
    /\ pc' = "open"
    /\ result' = "running"
    /\ start_file' = file
    /\ start_consistent' = IF Len(file) = 0 THEN zone = {}
                           ELSE /\ from_json(file).ok
                                /\ zone = Records(from_json(file).val.servers_synced)
    /\ ops_done' = {}
    /\ last_saved' = None
    /\ fault' = "none"
    /\ UNCHANGED <<file, zone, current_state, network_info, lists, rename_queue,
                   calls, provider_calls, adds_started>>

StartRun ==
    /\ runs < MaxRuns
    /\ \E name \in IF runs = 0 THEN NetNames ELSE {args.private_network_name},
          allow \in IF runs = 0 THEN BOOLEAN ELSE {args.allow_private_network_change},
          members \in IF runs = 0 THEN MemberLists ELSE LaterMemberLists(network_servers) :
         Begin(name, allow, members, runs + 1)

\* The scheduler runs the same command line again, the network unchanged.  The
\* run counter stops at MaxRuns.
Reinvoke ==
    /\ runs > 0
    /\ Begin(args.private_network_name, args.allow_private_network_change,
             network_servers, IF runs < MaxRuns THEN runs + 1 ELSE runs)

\* from_directory, the file is empty: State::default().
OpenEmpty ==
    /\ pc = "open"
    /\ Len(file) = 0
    /\ current_state' = ZeroState
    /\ Goes("check_name")
    /\ UNCHANGED <<file, zone, env, started, network_info, lists, rename_queue,
                   calls, provider_calls, ops_done, last_saved, adds_started>>

\* from_directory, the file parses.
OpenParsed ==
    /\ pc = "open"
    /\ Len(file) # 0
    /\ from_json(file).ok
    /\ current_state' = from_json(file).val
    /\ Goes("check_name")
    /\ UNCHANGED <<file, zone, env, started, network_info, lists, rename_queue,
                   calls, provider_calls, ops_done, last_saved, adds_started>>

\* A file that does not parse is taken for an empty one.
OpenCorruptAsEmpty ==
    /\ pc = "open"
    /\ Len(file) # 0
    /\ ~from_json(file).ok
    /\ current_state' = ZeroState
    /\ Goes("check_name")
    /\ UNCHANGED <<file, zone, env, started, network_info, lists, rename_queue,
                   calls, provider_calls, ops_done, last_saved, adds_started>>

\* from_directory, the file does not parse: main returns the error before a
\* StateWrapper exists, so nothing is saved.
OpenCorrupt ==
    /\ pc = "open"
    /\ Len(file) # 0
    /\ ~from_json(file).ok
    /\ result' = "err"
    /\ ProcessEnds
    /\ UNCHANGED <<file, zone, env, ops_done, last_saved, fault>>

NameChanged == current_state.private_network_name # args.private_network_name

\* main.rs:326, the names agree.
NameUnchanged ==
    /\ pc = "check_name"
    /\ ~NameChanged
    /\ Goes("diff")
    /\ UNCHANGED <<file, zone, env, started, current_state, network_info, lists,
                   rename_queue, calls, provider_calls, ops_done, last_saved,
                   adds_started>>

\* The clean-up entered without looking at the flag.
RenameUnchecked ==
    /\ pc = "check_name"
    /\ NameChanged
    /\ current_state.servers_synced # <<>>
    /\ ~args.allow_private_network_change
    /\ rename_queue' = current_state.servers_synced
    /\ Goes("rename_loop")
    /\ UNCHANGED <<file, zone, env, started, current_state, network_info, lists,
                   calls, provider_calls, ops_done, last_saved, adds_started>>

\* main.rs:328-330.
RenameDenied ==
    /\ pc = "check_name"
    /\ NameChanged
    /\ current_state.servers_synced # <<>>
    /\ ~args.allow_private_network_change
    /\ ReturnErr("none")
    /\ UNCHANGED <<file, zone, env, started, current_state, network_info, lists,
                   rename_queue, calls, provider_calls, ops_done, last_saved,
                   adds_started>>

\* main.rs:332-333: the loop runs over a clone of servers_synced.
RenameStart ==
    /\ pc = "check_name"
    /\ NameChanged
    /\ current_state.servers_synced # <<>>
    /\ args.allow_private_network_change
    /\ rename_queue' = current_state.servers_synced
    /\ Goes("rename_loop")
    /\ UNCHANGED <<file, zone, env, started, current_state, network_info, lists,
                   calls, provider_calls, ops_done, last_saved, adds_started>>

\* main.rs:335: remove_server in the clean-up loop.
RenameDelete(ok) ==
    /\ pc = "rename_loop"
    /\ rename_queue # <<>>
    /\ LET server_info == Head(rename_queue)
       IN /\ calls' = Append(calls, DeleteCall(server_info.id, fqdn(server_info), Outcome(ok)))
          /\ IF ok
             THEN /\ zone' = zone_delete(zone, fqdn(server_info))
                  /\ Goes("rename_retain")
             ELSE /\ ReturnErr("dns")
                  /\ UNCHANGED zone
    /\ UNCHANGED <<file, env, started, current_state, network_info, lists,
                   rename_queue, provider_calls, ops_done, last_saved, adds_started>>

\* main.rs:336-339: retain, then save.
RenameRetain(io_ok) ==
    /\ pc = "rename_retain"
    /\ LET id == Head(rename_queue).id
           data == [current_state EXCEPT !.servers_synced = retain(@, id)]
       IN /\ current_state' = data
          /\ IF io_ok
             THEN /\ file' = save(file, data)
                  /\ last_saved' = Some(data)
                  /\ ops_done' = ops_done \cup {<<"cleanup", id>>}
                  /\ Goes("rename_loop")
             ELSE /\ ReturnErr("io")
                  /\ UNCHANGED <<file, last_saved, ops_done>>
    /\ rename_queue' = Tail(rename_queue)
    /\ UNCHANGED <<zone, env, started, network_info, lists, calls, provider_calls,
                   adds_started>>

\* current_state.private_network_name = args.private_network_name; save()?
AdoptName(io_ok) ==
    /\ LET data == [current_state EXCEPT !.private_network_name = args.private_network_name]
       IN /\ current_state' = data
          /\ IF io_ok
             THEN /\ file' = save(file, data)
                  /\ last_saved' = Some(data)
                  /\ Goes("diff")
             ELSE /\ ReturnErr("io")
                  /\ UNCHANGED <<file, last_saved>>
    /\ UNCHANGED <<zone, env, started, network_info, lists, rename_queue, calls,
                   provider_calls, ops_done, adds_started>>

\* main.rs:343-344: the clean-up loop is through.
RenameAdopt(io_ok) ==
    /\ pc = "rename_loop"
    /\ rename_queue = <<>>
    /\ AdoptName(io_ok)

\* main.rs:347-348: the name changed and nothing was synced.
FreshAdopt(io_ok) ==
    /\ pc = "check_name"
    /\ NameChanged
    /\ current_state.servers_synced = <<>>
    /\ AdoptName(io_ok)

\* server_ids -> retrieve_network fails: list_networks returns an error, or
\* no network of that name (main.rs:253, 255-260).
RetrieveNetworkFail ==
    /\ pc = "diff"
    /\ network_info = None
    /\ provider_calls' = provider_calls + 1
    /\ ReturnErr("provider")
    /\ UNCHANGED <<file, zone, env, started, current_state, network_info, lists,
                   rename_queue, calls, ops_done, last_saved, adds_started>>

\* main.rs:352-362: retrieve_network caches the network; both id lists go
\* through a HashSet and the differences are collected in the sets' iteration
\* order.
ComputeDiff ==
    /\ pc = "diff"
    /\ network_info = None
    /\ provider_calls' = provider_calls + 1
    /\ network_info' = Some([id |-> "N1", servers |-> network_servers])
    /\ \E add \in servers_to_add_orders(network_servers, current_state.servers_synced),
          rem \in servers_to_remove_orders(network_servers, current_state.servers_synced) :
         /\ to_hydrate' = add
         /\ servers_to_remove' = rem
    /\ Goes("hydrate")
    /\ UNCHANGED <<file, zone, env, started, current_state, hydrated_servers,
                   servers_to_add, rename_queue, calls, ops_done, last_saved,
                   adds_started>>

\* hydrate_server_list, one turn of its loop that yields a Server.
HydrateOk ==
    /\ pc = "hydrate"
    /\ to_hydrate # <<>>
    /\ \E resp \in GetServerResponses(Head(to_hydrate)) :
         LET server == hydrate_one(Head(to_hydrate), resp, network_info[1].id)
         IN /\ server # None
            /\ hydrated_servers' = Append(hydrated_servers, server[1])
    /\ to_hydrate' = Tail(to_hydrate)
    /\ provider_calls' = provider_calls + 1
    /\ Goes("hydrate")
    /\ UNCHANGED <<file, zone, env, started, current_state, network_info,
                   servers_to_add, servers_to_remove, rename_queue, calls,
                   ops_done, last_saved, adds_started>>

\* A server that cannot be hydrated is left out and the loop goes on.
HydrateSkip ==
    /\ pc = "hydrate"
    /\ to_hydrate # <<>>
    /\ \E resp \in GetServerResponses(Head(to_hydrate)) :
         hydrate_one(Head(to_hydrate), resp, network_info[1].id) = None
    /\ to_hydrate' = Tail(to_hydrate)
    /\ provider_calls' = provider_calls + 1
    /\ Goes("hydrate")
    /\ UNCHANGED <<file, zone, env, started, current_state, network_info,
                   hydrated_servers, servers_to_add, servers_to_remove,
                   rename_queue, calls, ops_done, last_saved, adds_started>>

\* hydrate_server_list, one turn of its loop that returns an error.
HydrateFail ==
    /\ pc = "hydrate"
    /\ to_hydrate # <<>>
    /\ \E resp \in GetServerResponses(Head(to_hydrate)) :
         hydrate_one(Head(to_hydrate), resp, network_info[1].id) = None
    /\ provider_calls' = provider_calls + 1
    /\ ReturnErr("provider")
    /\ UNCHANGED <<file, zone, env, started, current_state, network_info, lists,
                   rename_queue, calls, ops_done, last_saved, adds_started>>

\* main.rs:370: the hydrated list shadows servers_to_add.
HydrateDone ==
    /\ pc = "hydrate"
    /\ to_hydrate = <<>>
    /\ servers_to_add' = hydrated_servers
    /\ hydrated_servers' = <<>>
    /\ Goes("add_loop")
    /\ UNCHANGED <<file, zone, env, started, current_state, network_info,
                   to_hydrate, servers_to_remove, rename_queue, calls,
                   provider_calls, ops_done, last_saved, adds_started>>

\* add_server, main.rs:164: the address does not parse; no call is made.
AddParseFail ==
    /\ pc = "add_loop"
    /\ servers_to_add # <<>>
    /\ ~parse_ip(Head(servers_to_add).ip_address).ok
    /\ adds_started' = adds_started + 1
    /\ ReturnErr("parse")
    /\ UNCHANGED <<file, zone, env, started, current_state, network_info, lists,
                   rename_queue, calls, provider_calls, ops_done, last_saved>>

\* add_server, main.rs:166-178 and 194: the create call.
AddCreate(outcome) ==
    /\ pc = "add_loop"
    /\ servers_to_add # <<>>
    /\ parse_ip(Head(servers_to_add).ip_address).ok
    /\ adds_started' = adds_started + 1
    /\ LET server == Head(servers_to_add)
           server_fqdn == fqdn(server)
           server_ip_parsed == parse_ip(server.ip_address).addr
       IN /\ outcome \in create_outcomes(zone, server_fqdn)
          /\ calls' = Append(calls, CreateCall(server.id, server_fqdn, server_ip_parsed, outcome))
          /\ CASE outcome = "ok" ->
                    /\ zone' = zone_create(zone, server_fqdn, server_ip_parsed)
                    /\ Goes("add_push")
               [] outcome = "response" ->
                    /\ Goes("add_update")
                    /\ UNCHANGED zone
               [] OTHER ->
                    /\ ReturnErr("dns")
                    /\ UNCHANGED zone
    /\ UNCHANGED <<file, env, started, current_state, network_info, lists,
                   rename_queue, provider_calls, ops_done, last_saved>>

\* add_server, main.rs:179-193: the update call after a rejected create.
AddUpdate(ok) ==
    /\ pc = "add_update"
    /\ LET server == Head(servers_to_add)
           server_fqdn == fqdn(server)
           server_ip_parsed == parse_ip(server.ip_address).addr
       IN /\ calls' = Append(calls, UpdateCall(server.id, server_fqdn, server_ip_parsed, Outcome(ok)))
          /\ IF ok
             THEN /\ zone' = zone_update(zone, server_fqdn, server_ip_parsed)
                  /\ Goes("add_push")
             ELSE /\ ReturnErr("dns")
                  /\ UNCHANGED zone
    /\ UNCHANGED <<file, env, started, current_state, network_info, lists,
                   rename_queue, provider_calls, ops_done, last_saved, adds_started>>

\* main.rs:376-377: push, then save.
AddPush(io_ok) ==
    /\ pc = "add_push"
    /\ LET server_info == Head(servers_to_add)
           data == [current_state EXCEPT !.servers_synced = Append(@, server_info)]
       IN /\ current_state' = data
          /\ IF io_ok
             THEN /\ file' = save(file, data)
                  /\ last_saved' = Some(data)
                  /\ ops_done' = ops_done \cup {<<"add", server_info.id>>}
                  /\ Goes("add_loop")
             ELSE /\ ReturnErr("io")
                  /\ UNCHANGED <<file, last_saved, ops_done>>
    /\ servers_to_add' = Tail(servers_to_add)
    /\ UNCHANGED <<zone, env, started, network_info, to_hydrate, hydrated_servers,
                   servers_to_remove, rename_queue, calls, provider_calls,
                   adds_started>>

\* The add loop is through.
AddDone ==
    /\ pc = "add_loop"
    /\ servers_to_add = <<>>
    /\ Goes("remove_loop")
    /\ UNCHANGED <<file, zone, env, started, current_state, network_info, lists,
                   rename_queue, calls, provider_calls, ops_done, last_saved,
                   adds_started>>

\* main.rs:383-389: find(..).unwrap(), then remove_server.  A failed unwrap
\* panics; the unwinding drops the StateWrapper.
RemoveDelete(ok) ==
    /\ pc = "remove_loop"
    /\ servers_to_remove # <<>>
    /\ LET server_info == find(current_state.servers_synced, Head(servers_to_remove))
       IN IF server_info = None
          THEN /\ pc' = "drop"
               /\ result' = "panic"
               /\ UNCHANGED <<zone, calls, fault>>
          ELSE /\ calls' = Append(calls, DeleteCall(server_info[1].id, fqdn(server_info[1]), Outcome(ok)))
               /\ IF ok
                  THEN /\ zone' = zone_delete(zone, fqdn(server_info[1]))
                       /\ Goes("remove_retain")
                  ELSE /\ ReturnErr("dns")
                       /\ UNCHANGED zone
    /\ UNCHANGED <<file, env, started, current_state, network_info, lists,
                   rename_queue, provider_calls, ops_done, last_saved, adds_started>>

\* main.rs:390-392: retain, then save.
RemoveRetain(io_ok) ==
    /\ pc = "remove_retain"
    /\ LET server_id == find(current_state.servers_synced, Head(servers_to_remove))[1].id
           data == [current_state EXCEPT !.servers_synced = retain(@, server_id)]
       IN /\ current_state' = data
          /\ IF io_ok
             THEN /\ file' = save(file, data)
                  /\ last_saved' = Some(data)
                  /\ ops_done' = ops_done \cup {<<"remove", server_id>>}
                  /\ Goes("remove_loop")
             ELSE /\ ReturnErr("io")
                  /\ UNCHANGED <<file, last_saved, ops_done>>
    /\ servers_to_remove' = Tail(servers_to_remove)
    /\ UNCHANGED <<zone, env, started, network_info, to_hydrate, hydrated_servers,
                   servers_to_add, rename_queue, calls, provider_calls, adds_started>>

\* main.rs:396-397: Ok(()).
RemoveDone ==
    /\ pc = "remove_loop"
    /\ servers_to_remove = <<>>
    /\ pc' = "drop"
    /\ result' = "ok"
    /\ UNCHANGED <<file, zone, env, started, current_state, network_info, lists,
                   rename_queue, calls, provider_calls, ops_done, last_saved,
                   fault, adds_started>>

\* Drop for StateWrapper: save().unwrap().  When the save fails the unwrap
\* panics and the process ends abnormally whatever main returned.
DropSave(io_ok) ==
    /\ pc = "drop"
    /\ IF io_ok
       THEN /\ file' = save(file, current_state)
            /\ last_saved' = Some(current_state)
            /\ UNCHANGED <<result, fault>>
       ELSE /\ result' = "abort"
            /\ fault' = IF fault = "none" THEN "io" ELSE fault
            /\ UNCHANGED <<file, last_saved>>
    /\ ProcessEnds
    /\ UNCHANGED <<zone, env, ops_done>>

\* The process is killed: nothing of it runs any more, Drop included.
Kill ==
    /\ Running
    /\ result' = "killed"
    /\ ProcessEnds
    /\ UNCHANGED <<file, zone, env, ops_done, last_saved, fault>>

Next ==
    \/ StartRun
    \/ OpenEmpty
    \/ OpenParsed
    \/ OpenCorrupt
    \/ NameUnchanged
    \/ RenameDenied
    \/ RenameStart
    \/ \E ok \in BOOLEAN : RenameDelete(ok)
    \/ \E io_ok \in BOOLEAN : RenameRetain(io_ok)
    \/ \E io_ok \in BOOLEAN : RenameAdopt(io_ok)
    \/ \E io_ok \in BOOLEAN : FreshAdopt(io_ok)
    \/ RetrieveNetworkFail
    \/ ComputeDiff
    \/ HydrateOk
    \/ HydrateFail
    \/ HydrateDone
    \/ AddParseFail
    \/ \E outcome \in {"ok", "response", "other"} : AddCreate(outcome)
    \/ \E ok \in BOOLEAN : AddUpdate(ok)
    \/ \E io_ok \in BOOLEAN : AddPush(io_ok)
    \/ AddDone
    \/ \E ok \in BOOLEAN : RemoveDelete(ok)
    \/ \E io_ok \in BOOLEAN : RemoveRetain(io_ok)
    \/ RemoveDone
    \/ \E io_ok \in BOOLEAN : DropSave(io_ok)
    \/ Kill

Spec == Init /\ [][Next]_vars

(***************************************************************************)
(* Re-invocation without end: the first run is any run; every run that     *)
(* ends is followed by a run with the same command line against the same   *)
(* network.  The environment fails (a call or a save fails, the provider   *)
(* gives no usable address, the process is killed) only in the runs before *)
(* run MaxRuns; from run MaxRuns on every call succeeds.                   *)
(***************************************************************************)
MayFail == runs < MaxRuns

\* The steps of main after the state was opened, and the drop.
LiveSteps ==
    \/ NameUnchanged
    \/ RenameDenied
    \/ RenameStart
    \/ \E ok \in BOOLEAN : (ok \/ MayFail) /\ RenameDelete(ok)
    \/ \E io_ok \in BOOLEAN : (io_ok \/ MayFail) /\ RenameRetain(io_ok)
    \/ \E io_ok \in BOOLEAN : (io_ok \/ MayFail) /\ RenameAdopt(io_ok)
    \/ \E io_ok \in BOOLEAN : (io_ok \/ MayFail) /\ FreshAdopt(io_ok)
    \/ MayFail /\ RetrieveNetworkFail
    \/ ComputeDiff
    \/ HydrateOk /\ (MayFail \/ parse_ip(Last(hydrated_servers').ip_address).ok)
    \/ MayFail /\ HydrateFail
    \/ HydrateDone
    \/ MayFail /\ AddParseFail
    \/ \E outcome \in {"ok", "response", "other"} :
           (outcome # "other" \/ MayFail) /\ AddCreate(outcome)
    \/ \E ok \in BOOLEAN : (ok \/ MayFail) /\ AddUpdate(ok)
    \/ \E io_ok \in BOOLEAN : (io_ok \/ MayFail) /\ AddPush(io_ok)
    \/ AddDone
    \/ \E ok \in BOOLEAN : (ok \/ MayFail) /\ RemoveDelete(ok)
    \/ \E io_ok \in BOOLEAN : (io_ok \/ MayFail) /\ RemoveRetain(io_ok)
    \/ RemoveDone
    \/ \E io_ok \in BOOLEAN : (io_ok \/ MayFail) /\ DropSave(io_ok)

LiveNext ==
    \/ runs = 0 /\ StartRun
    \/ Reinvoke
    \/ OpenEmpty
    \/ OpenParsed
    \/ OpenCorrupt
    \/ LiveSteps
    \/ MayFail /\ Kill

\* A process that is not killed goes on running: main takes its next step.
\* That runs are started, and get to open state.json, is left to the scheduler.
LiveSpec == Init /\ [][LiveNext]_vars /\ WF_vars(LiveSteps)

(***************************************************************************)
(* Properties.                                                             *)
(***************************************************************************)
\* main has returned Ok(()) and the StateWrapper is about to be dropped.
ReturnedOk == pc = "drop" /\ result = "ok"

\* What state.json holds, read the way the next run will read it.
Persisted == from_json(file)

Kinds(ops, kinds) == {o \in ops : o[1] \in kinds}

DiffOps(ops) == Kinds(ops, {"add", "remove"})

\* C1: when main returns Ok, the ids of servers_synced are exactly the ids the
\* provider listed for the network, and no id is in servers_synced twice.
C1_SyncedIsMembership ==
    ReturnedOk =>
        /\ Ids(current_state.servers_synced) = Range(network_servers)
        /\ NoDup(current_state.servers_synced)

\* A successful run that added and removed servers, from a list repeating an id.
C1_Witness ==
    /\ ReturnedOk
    /\ Kinds(ops_done, {"add"}) # {}
    /\ Kinds(ops_done, {"remove"}) # {}
    /\ Len(network_servers) > Cardinality(Range(network_servers))

\* C2: once a save of the run has succeeded, state.json parses to the state
\* that was saved.
C2_SaveRoundTrip ==
    last_saved # None => (Persisted.ok /\ Persisted.val = last_saved[1])

\* C3: when main returns Ok after a run that began with zone and state in
\* correspondence, the zone holds exactly the records of servers_synced.
C3_StateMatchesZone ==
    (ReturnedOk /\ start_consistent) => zone = Records(current_state.servers_synced)

\* A run that follows a run killed after it had persisted diff operations,
\* with the same network name and the same membership.
CrashRestart ==
    /\ runs >= 2
    /\ prev.result = "killed"
    /\ prev.same
    /\ DiffOps(prev.ops) # {}

\* C4: the run after a kill makes no call for a server whose operation the
\* killed run had persisted, and, given no failure by its environment, ends
\* with Ok and servers_synced equal to the membership.
C4_CrashSafety ==
    CrashRestart =>
        /\ \A i \in 1..Len(calls) : \A o \in DiffOps(prev.ops) : calls[i].id # o[2]
        /\ (pc = "drop" /\ fault = "none") =>
               /\ result = "ok"
               /\ Ids(current_state.servers_synced) = Range(network_servers)
        /\ (pc = "exited" /\ fault = "none") => result \in {"ok", "killed"}

\* A run that follows a successful run, with the same network name and the
\* same membership.
Rerun == runs >= 2 /\ prev.result = "ok" /\ prev.same

\* C5: the run after a successful run with name and membership unchanged makes
\* no Zone Mutator call, and changes neither state.json nor the state it
\* loaded.
C5_Idempotent ==
    /\ [](Rerun => calls = <<>>)
    /\ [][Rerun => file' = file /\ zone' = zone]_vars
    /\ [][(Rerun /\ pc \notin {"open", "exited"} /\ pc' # "exited")
            => current_state' = current_state]_vars

\* A second run that went through the whole of main with servers synced.
C5_Witness ==
    /\ Rerun
    /\ ReturnedOk
    /\ provider_calls > 0
    /\ current_state.servers_synced # <<>>

\* The loaded state names another network, holds servers, and the flag is off.
DeniedCase ==
    /\ NameChanged
    /\ current_state.servers_synced # <<>>
    /\ ~args.allow_private_network_change

\* C6: a denied rename ends main with an error; no Zone Mutator and no
\* Membership Provider call is made, and state.json is, byte for byte, what
\* the run found, also after the save of Drop.
C6_DeniedRename ==
    /\ []((pc \in {"check_name", "drop"} /\ DeniedCase)
            => /\ calls = <<>>
               /\ provider_calls = 0
               /\ file = start_file
               /\ pc = "drop" => result = "err")
    /\ [][(pc = "check_name" /\ DeniedCase)
            => \/ pc' = "drop" /\ result' = "err"
               \/ pc' = "exited" /\ result' = "killed"]_vars
    /\ [][(pc = "drop" /\ DeniedCase)
            => /\ pc' = "exited"
               /\ file' = start_file
               /\ zone' = zone
               /\ from_json(file').ok
               /\ from_json(file').val = current_state]_vars

\* main has returned the error of a denied rename.
C6_Witness == pc = "drop" /\ DeniedCase /\ result = "err"

\* Rename recovery is under way.
InCleanup == pc \in {"rename_loop", "rename_retain"}

CleanedIds == {o[2] : o \in Kinds(ops_done, {"cleanup"})}

\* C7: during authorized rename recovery the delete calls made are one for
\* each server handled so far, network_name is still the old name, and
\* state.json holds the old name and servers_synced without exactly the
\* servers whose delete was persisted.
C7_RenameRecovery ==
    InCleanup =>
        LET old == from_json(start_file).val
            n == Len(old.servers_synced) - Len(rename_queue)
                 + (IF pc = "rename_retain" THEN 1 ELSE 0)
        IN /\ Len(calls) = n
           /\ \A i \in 1..n :
                  /\ calls[i].op = "delete"
                  /\ calls[i].id = old.servers_synced[i].id
                  /\ calls[i].name = fqdn(old.servers_synced[i])
           /\ current_state.private_network_name = old.private_network_name
           /\ Persisted.ok
           /\ Persisted.val.private_network_name = old.private_network_name
           /\ Persisted.val.servers_synced =
                  SelectSeq(old.servers_synced, LAMBDA sv : sv.id \notin CleanedIds)

\* The name was adopted over an empty list: the only save so far, no clean-up.
FreshAdopted == pc = "diff" /\ last_saved # None /\ ops_done = {}

\* C8: after the name is adopted over an empty servers_synced, no Zone Mutator
\* call has been made, the state holds the new name, state.json holds that
\* state, and the run is at the diff.
C8_FreshAdopt ==
    FreshAdopted =>
        /\ calls = <<>>
        /\ current_state.private_network_name = args.private_network_name
        /\ Persisted.ok
        /\ Persisted.val = current_state

Creates == {i \in 1..Len(calls) : calls[i].op = "create"}

\* The create-or-update protocol, read off the call history: an update comes
\* right after a rejected create for the same server, with the same name,
\* address and ttl; a server gets at most one create; the call waited on or
\* just made is for the server at the head of the queue, with the FQDN
\* hostname.zone and its parsed address; a failed create or update leaves
\* main with an error and the server out of servers_synced.
C9_Protocol ==
    /\ \A i \in 1..Len(calls) :
         calls[i].op = "update" =>
            /\ i > 1
            /\ calls[i - 1].op = "create"
            /\ calls[i - 1].res = "response"
            /\ calls[i - 1].id = calls[i].id
            /\ calls[i - 1].name = calls[i].name
            /\ calls[i - 1].content = calls[i].content
            /\ calls[i - 1].ttl = 600
            /\ calls[i].ttl = 600
    /\ \A i \in 1..Len(calls) :
         (calls[i].op = "create" /\ calls[i].res = "response" /\ i < Len(calls))
            => calls[i + 1].op = "update"
    /\ \A i, j \in Creates : calls[i].id = calls[j].id => i = j
    /\ pc \in {"add_update", "add_push"} =>
         /\ calls # <<>>
         /\ Last(calls).id = Head(servers_to_add).id
         /\ Last(calls).name = Head(servers_to_add).hostname \o <<".">> \o zone_name
         /\ Last(calls).content = parse_ip(Head(servers_to_add).ip_address).addr
         /\ pc = "add_update" => (Last(calls).op = "create" /\ Last(calls).res = "response")
         /\ pc = "add_push" => (Last(calls).op \in {"create", "update"} /\ Last(calls).res = "ok")
    /\ (pc = "drop" /\ calls # <<>> /\ Last(calls).op \in {"create", "update"}
          /\ Last(calls).res # "ok") =>
         /\ result = "err"
         /\ Last(calls).res = "other"
         /\ Last(calls).id \notin Ids(current_state.servers_synced)

\* C9 as claimed: beside the protocol, every add_server invocation makes
\* exactly one create call.
C9_OneCreatePerAdd ==
    /\ C9_Protocol
    /\ Cardinality(Creates) = adds_started

\* C9 as amended: every add_server invocation whose address parses as IPv4
\* makes exactly one create call; one whose address does not parse makes no
\* call and fails the add.
C9_CreateOrUpdate ==
    /\ C9_Protocol
    /\ fault # "parse" => Cardinality(Creates) = adds_started
    /\ (fault = "parse" /\ Running) =>
         /\ Cardinality(Creates) = adds_started - 1
         /\ pc = "drop" =>
              /\ result = "err"
              /\ \A i \in 1..Len(calls) :
                     calls[i].op \in {"create", "update"}
                        => calls[i].id # Head(servers_to_add).id
              /\ Head(servers_to_add).id \notin Ids(current_state.servers_synced)

\* The fallback has run: a rejected create, then a successful update.
C9_Witness ==
    /\ pc = "add_push"
    /\ Len(calls) >= 2
    /\ Last(calls).op = "update"

\* C10: a create (other than a rejection), update or delete that fails is the
\* last call of the run; main returns an error with the failed server neither
\* added nor removed, and state.json holds the servers as the operations
\* before the failure left them.
C10_AbortOnFailure ==
    /\ \A i \in 1..Len(calls) : calls[i].res = "other" => i = Len(calls)
    /\ (pc = "drop" /\ fault = "dns") =>
         /\ result = "err"
         /\ Last(calls).res = "other"
         /\ Last(calls).op \in {"create", "update"}
              => Last(calls).id \notin Ids(current_state.servers_synced)
         /\ Last(calls).op = "delete"
              => Last(calls).id \in Ids(current_state.servers_synced)
         /\ Persisted.ok \/ Len(file) = 0
         /\ Len(file) = 0 => current_state.servers_synced = <<>>
         /\ Len(file) # 0 => Persisted.val.servers_synced = current_state.servers_synced

\* C11: the step that drops the StateWrapper, on every path on which main
\* returned or panicked, ends the process either abnormally (the save failed)
\* or with state.json holding the in-memory state as the next run will read
\* it; the outcome of main is kept.
C11_GuaranteedFlush ==
    [][pc = "drop"
         => /\ pc' = "exited"
            /\ \/ result' \in {"abort", "killed"}
               \/ /\ result' = result
                  /\ from_json(file').ok
                  /\ from_json(file').val = current_state]_vars

\* A run is at a denied rename.
DeniedSeen == pc = "check_name" /\ DeniedCase

\* main has returned Ok with the membership synced.
Converged == ReturnedOk /\ Ids(current_state.servers_synced) = Range(network_servers)

\* The scheduler keeps starting runs, and each of them opens state.json.
Reinvoked == []<>(pc = "open") /\ []<>(pc # "open")

\* C12: under re-invocation with the command line and the membership fixed
\* and an environment that fails only finitely often, unless a rename is
\* denied, some run returns Ok with the ids of servers_synced equal to the
\* membership, and from some point on no run makes a Zone Mutator call.
C12_Convergence ==
    Reinvoked =>
        \/ <>DeniedSeen
        \/ /\ <>Converged
           /\ <>[](calls = <<>>)

\* The Zone Mutator calls of the run that succeeded, in order.
OkOps == SelectSeq(calls, LAMBDA c : c.res = "ok")

\* The ids synced after the operations ops were applied to the ids in ids.
RECURSIVE Replay(_, _)
Replay(ids, ops) ==
    IF ops = <<>> THEN ids
    ELSE Replay(IF Head(ops).op = "delete" THEN ids \ {Head(ops).id}
                ELSE ids \cup {Head(ops).id},
                Tail(ops))

\* The ids of the state the run loaded.
LoadedIds == IF Len(start_file) = 0 THEN {}
             ELSE Ids(from_json(start_file).val.servers_synced)

\* state.json can be loaded and lists exactly the ids in ids.
PersistedIdsAre(ids) ==
    IF Len(file) = 0 THEN ids = {}
    ELSE Persisted.ok /\ Ids(Persisted.val.servers_synced) = ids

\* A server enters servers_synced right after its create or update succeeded
\* and leaves it right after its delete succeeded.
C13_MutationOrder ==
    [][(pc \notin {"open", "exited"} /\ pc' # "exited") =>
          /\ \A id \in Ids(current_state'.servers_synced) \ Ids(current_state.servers_synced) :
                 /\ calls # <<>>
                 /\ Last(calls).op \in {"create", "update"}
                 /\ Last(calls).res = "ok"
                 /\ Last(calls).id = id
          /\ \A id \in Ids(current_state.servers_synced) \ Ids(current_state'.servers_synced) :
                 /\ calls # <<>>
                 /\ Last(calls).op = "delete"
                 /\ Last(calls).res = "ok"
                 /\ Last(calls).id = id]_vars

\* C13: in every state of a run the effects of all successful Zone Mutator
\* operations but possibly the last are in the servers_synced that state.json
\* holds; when a call is made that is not the update after a rejected create,
\* the effects of all of them are; and servers enter and leave servers_synced
\* only after their operation succeeded.
C13_PersistEachMutation ==
    /\ []((pc \notin {"open", "exited"} /\ Len(OkOps) >= 2) =>
             \/ PersistedIdsAre(Replay(LoadedIds, OkOps))
             \/ PersistedIdsAre(Replay(LoadedIds, SubSeq(OkOps, 1, Len(OkOps) - 1))))
    /\ [][(Len(calls') > Len(calls) /\ OkOps # <<>>)
            => PersistedIdsAre(Replay(LoadedIds, OkOps))]_vars
    /\ C13_MutationOrder

\* The state the run loaded.
Loaded == IF Len(start_file) = 0 THEN ZeroState ELSE from_json(start_file).val

\* Every server of the state st was loaded by the run, the name of st being
\* the loaded one, or was added by the run, the name being the requested one.
SyncedUnderName(st) ==
    \A i \in 1..Len(st.servers_synced) :
        LET sv == st.servers_synced[i]
        IN \/ /\ st.private_network_name = Loaded.private_network_name
              /\ \E j \in 1..Len(Loaded.servers_synced) : Loaded.servers_synced[j] = sv
           \/ /\ st.private_network_name = args.private_network_name
              /\ \E j \in 1..Len(calls) : /\ calls[j].op \in {"create", "update"}
                                          /\ calls[j].res = "ok"
                                          /\ calls[j].id = sv.id

\* The process ended in rename recovery: clean-ups were saved, the new name
\* was not.
RecoveryInterrupted ==
    /\ pc = "exited"
    /\ CleanedIds # {}
    /\ last_saved # None
    /\ last_saved[1].private_network_name # args.private_network_name

\* C14: the network name, in memory and as saved, changes only over an empty
\* servers_synced; during rename recovery the name is the loaded one; the
\* servers of servers_synced, in memory and in a state.json that parses, were
\* synced under the name that goes with them; and after an interrupted
\* recovery state.json holds, for the next run, the old name and the servers
\* not yet cleaned up.
C14_NameChangesWhenEmpty ==
    /\ [][(pc \notin {"open", "exited"} /\ pc' # "exited") =>
            /\ current_state'.private_network_name # current_state.private_network_name
                  => /\ current_state.servers_synced = <<>>
                     /\ current_state'.servers_synced = <<>>
            /\ (last_saved' # None
                   /\ last_saved'[1].private_network_name # Loaded.private_network_name)
                  => \/ last_saved'[1].servers_synced = <<>>
                     \/ /\ last_saved # None
                        /\ last_saved[1].private_network_name
                             = last_saved'[1].private_network_name]_vars
    /\ [](InCleanup => /\ current_state.private_network_name = Loaded.private_network_name
                       /\ current_state.private_network_name # args.private_network_name)
    /\ [](pc \notin {"open", "exited"} =>
             /\ SyncedUnderName(current_state)
             /\ Persisted.ok => SyncedUnderName(Persisted.val))
    /\ [](RecoveryInterrupted =>
             /\ Persisted.ok
             /\ Persisted.val = last_saved[1]
             /\ Persisted.val.private_network_name # args.private_network_name)

\* servers_synced as the diff found it: the loaded list, or the empty list
\* after the name was adopted.
DiffStart ==
    LET l == Loaded
    IN IF l.private_network_name # args.private_network_name THEN <<>>
       ELSE l.servers_synced

\* main has returned the error of hydrate_server_list.
HydrationFailed == pc = "drop" /\ fault = "provider" /\ network_info # None

InDiffLoops == pc \in {"add_loop", "add_update", "add_push", "remove_loop", "remove_retain"}

\* C15: when hydration fails main returns an error; the only Zone Mutator
\* calls of the run are the deletes of the rename clean-up, no addition or
\* removal was applied, servers_synced is the list the diff found and every
\* id to remove is still waiting; the drop leaves state.json and the zone as
\* they are; and the loops of the diff start only with every member synced
\* or hydrated.
C15_HydrationFatal ==
    /\ [](HydrationFailed =>
             /\ result = "err"
             /\ \A i \in 1..Len(calls) : calls[i].op = "delete" /\ calls[i].id \in CleanedIds
             /\ Len(calls) = Cardinality(CleanedIds)
             /\ DiffOps(ops_done) = {}
             /\ current_state.servers_synced = DiffStart
             /\ Range(servers_to_remove) = Ids(DiffStart) \ Range(network_servers))
    /\ [](InDiffLoops =>
             Range(network_servers) \subseteq
                 Ids(current_state.servers_synced) \cup Ids(servers_to_add))
    /\ [][HydrationFailed => (pc' = "exited" /\ file' = file /\ zone' = zone)]_vars

\* Hydration failed at the second server to add, with a removal waiting.
C15_Witness ==
    /\ HydrationFailed
    /\ hydrated_servers # <<>>
    /\ servers_to_remove # <<>>

\* state.json is there and does not parse.
Unparsable == Len(file) # 0 /\ ~from_json(file).ok

\* C16: a run that finds state.json empty starts from the zero state, one
\* that finds it parsable from the state it holds; one that finds it
\* unparsable ends with an error in the very step, having made no Zone
\* Mutator and no Membership Provider call, with state.json and the zone
\* untouched.
C16_OpenState ==
    /\ []((pc = "check_name" /\ Len(start_file) = 0) =>
             /\ current_state.private_network_name = <<>>
             /\ current_state.servers_synced = <<>>)
    /\ []((pc = "check_name" /\ Len(start_file) # 0) =>
             /\ from_json(start_file).ok
             /\ current_state = from_json(start_file).val)
    /\ [](pc = "open" => calls = <<>> /\ provider_calls = 0 /\ file = start_file)
    /\ [][(pc = "open" /\ Unparsable) =>
             /\ pc' = "exited"
             /\ result' \in {"err", "killed"}
             /\ file' = file
             /\ zone' = zone]_vars

\* A run has ended with the error of from_directory.
C16_Witness ==
    /\ pc = "exited"
    /\ result = "err"
    /\ last_saved = None
    /\ Unparsable

\* C17: the lookup of the remove loop finds its server: no run panics, and
\* whenever the loop is about to take an id, that id and every id still
\* waiting is in servers_synced.
C17_LookupFinds ==
    /\ result # "panic"
    /\ pc \in {"remove_loop", "remove_retain"} =>
          /\ Range(servers_to_remove) \subseteq Ids(current_state.servers_synced)
          /\ servers_to_remove # <<>> =>
                find(current_state.servers_synced, Head(servers_to_remove)) # None

\* The loop is at its second removal, after an addition.
C17_Witness ==
    /\ pc = "remove_loop"
    /\ servers_to_remove # <<>>
    /\ Kinds(ops_done, {"remove"}) # {}
    /\ Kinds(ops_done, {"add"}) # {}

\* The run has listed the members of the network: it is in the diff phase or
\* returns from it.
InDiffPhase == pc \in {"hydrate", "drop"} \cup {"add_loop", "add_update", "add_push",
                                                "remove_loop", "remove_retain"}
               /\ network_info # None

\* The ids of the list d that are members.
Kept(d) == Ids(d) \cap Range(network_servers)

\* A kept server whose stored record is not what the provider reports.
KeptStale == \E i \in 1..Len(DiffStart) : /\ DiffStart[i].id \in Kept(DiffStart)
                                            /\ DiffStart[i] # ServerOf(DiffStart[i].id)

\* C18: from the diff on, a step of the run leaves every server that is
\* synced and a member as it is: the server is not taken for hydration or
\* removal, the step makes no provider or Zone Mutator call for it, and
\* servers_synced keeps its record, whatever the provider reports for the id
\* now.
C18_KeptUntouched ==
    [][(/\ pc \in {"diff", "hydrate", "add_loop", "add_update", "add_push",
                    "remove_loop", "remove_retain"}
        /\ pc' \in {"hydrate", "add_loop", "add_update", "add_push",
                     "remove_loop", "remove_retain", "drop"}) =>
          \A i \in 1..Len(current_state.servers_synced) :
              LET s == current_state.servers_synced[i]
              IN s.id \in Range(network_servers) =>
                    /\ s.id \notin Range(to_hydrate') \cup Range(servers_to_remove')
                    /\ Len(hydrated_servers') > Len(hydrated_servers) =>
                           Last(hydrated_servers').id # s.id
                    /\ Len(calls') > Len(calls) => Last(calls').id # s.id
                    /\ find(current_state'.servers_synced, s.id) = Some(s)]_vars

\* A run that added and removed servers returns with a kept server whose
\* stored name and address differ from the provider's.
C18_Witness ==
    /\ InDiffPhase
    /\ pc = "drop"
    /\ result = "ok"
    /\ KeptStale
    /\ Kinds(ops_done, {"add"}) # {}
    /\ Kinds(ops_done, {"remove"}) # {}

=============================================================================
